---- MODULE Spec2Model ----
(***************************************************************************)
(* Model of package ccopy (src/ccopy.go): Config.Copy, the reflective deep *)
(* copy with per-tag customisers.                                          *)
(*                                                                         *)
(* A reflect.Value is a record [k, n, s, m]:                               *)
(*   k  the reflect.Kind ("invalid" for the zero reflect.Value, "time" for *)
(*      a struct of type time.Time, which the code recognises by type);    *)
(*   n  the payload of a scalar, or the address held by a pointer, slice,  *)
(*      map or channel (0 is nil);                                         *)
(*   s  the children stored inline: struct fields, array elements, the     *)
(*      value held by an interface (<<>> for a nil interface);             *)
(*   m  for a struct, one [exp, tag] per field: exported?, `ccopy` tag.    *)
(* The heap is a sequence of cells: the target of a pointer ("cell"), the  *)
(* backing array of a slice ("arr"), the table of a map ("mapdata", a      *)
(* sequence of "entry" values in iteration order). Allocation appends.     *)
(***************************************************************************)
EXTENDS Integers, Sequences, FiniteSets, TLC

\* ---------------------------------------------------------------- bounds
MaxChain == 2   \* longest chain of cells of the input
MaxInt == 1     \* scalars range over 0..MaxInt
MaxLen == 2     \* longest slice, array, map and field list of the input

\* The goroutine stack is finite: a recursion deeper than any finite acyclic
\* input of these bounds needs ends in the runtime's fatal stack overflow.
StackLimit == 2 * MaxChain + 4

\* ---------------------------------------------------------------- values
Val(k, n, s, m) == [k |-> k, n |-> n, s |-> s, m |-> m]
IntV(n) == Val("int", n, <<>>, <<>>)
Uintptr(n) == Val("uintptr", n, <<>>, <<>>)
Chan(a) == Val("chan", a, <<>>, <<>>)
Time(n) == Val("time", n, <<>>, <<>>)
Ptr(a) == Val("ptr", a, <<>>, <<>>)
Slice(a) == Val("slice", a, <<>>, <<>>)
Map(a) == Val("map", a, <<>>, <<>>)
Iface(s) == Val("iface", 0, s, <<>>)
Array(s) == Val("array", 0, s, <<>>)
Struct(s, m) == Val("struct", 0, s, m)
Invalid == Val("invalid", 0, <<>>, <<>>)
NilIface == Iface(<<>>)

Cell(v) == Val("cell", 0, <<v>>, <<>>)
Arr(s) == Val("arr", 0, s, <<>>)
MapData(s) == Val("mapdata", 0, s, <<>>)
Entry(key, v) == Val("entry", 0, <<key, v>>, <<>>)

Meta(exp, tag) == [exp |-> exp, tag |-> tag]
Plain == Meta(TRUE, "")
Unexp == Meta(FALSE, "")

RefKinds == {"ptr", "slice", "map"}
ScalarKindsAll == {"int", "chan", "uintptr"}
\* the kinds of the switch's last case, returned as they are
ScalarKinds == {"int", "chan"}

RECURSIVE IsZeroLoose(_)
IsZeroLoose(v) ==
    CASE v.k \in {"int", "uintptr", "time", "chan"} -> v.n = 0
      [] v.k \in RefKinds -> TRUE
      [] v.k = "iface" -> v.s = <<>>
      [] OTHER -> \A i \in 1..Len(v.s) : IsZeroLoose(v.s[i])

\* reflect.Value.IsZero
RECURSIVE IsZero(_)
IsZero(v) ==
    CASE v.k \in {"int", "uintptr", "time", "chan"} -> v.n = 0
      [] v.k \in RefKinds -> v.n = 0
      [] v.k = "iface" -> v.s = <<>>
      [] OTHER -> \A i \in 1..Len(v.s) : IsZero(v.s[i])

\* reflect.Zero(t) / reflect.New(t).Elem() for the type of v
RECURSIVE ZeroOf(_)
ZeroOf(v) ==
    CASE v.k = "iface" -> NilIface
      [] v.k \in {"struct", "array"} ->
            Val(v.k, 0, [i \in 1..Len(v.s) |-> ZeroOf(v.s[i])], v.m)
      [] OTHER -> Val(v.k, 0, <<>>, <<>>)

\* ---------------------------------------------------------------- trace
\* What the traversal did, in order, each event with the depth d of the
\* c.copy frame it happened in:
\*   "copy"   c.copy was entered on x
\*   "done"   c.copy returned y, nil for x
\*   "field"  copyStruct reached field i, exported, tagged t, holding x
\*   "call"   the customiser of tag t was called with x and returned y
\*   "struct" copyStruct returned y, nil for x
\*   "map"    copyMap returned y, nil for x
\*   "err"    the error t was created
\*   "ret"    the strategy copying x returned the error t of its callee
Ev(e, t, x, y, d, i) == [e |-> e, t |-> t, x |-> x, y |-> y, d |-> d, i |-> i]

\* the state threaded through the recursion: the heap, the trace, whether a
\* cell was entered that is being copied further up the stack, the deepest
\* frame, and the variant of the zero-value rule (always: assign even zero)
St(heap, always) ==
    [heap |-> heap, trace |-> <<>>, cyc |-> FALSE, maxd |-> 0, always |-> always]
Log(st, ev) == [st EXCEPT !.trace = Append(@, ev)]
Alloc(st, cell) == [st EXCEPT !.heap = Append(@, cell)]
Top(st) == Len(st.heap)
Store(st, a, cell) == [st EXCEPT !.heap[a] = cell]
Enter(st, a, path) == [st EXCEPT !.cyc = @ \/ a \in path]

\* the outcome of a call: "ok" (v, nil), "err" (zero, error msg), "panic"
\* (unsupported type), "overflow" (the stack is exhausted)
Res(out, msg, v, st) == [out |-> out, msg |-> msg, v |-> v, st |-> st]
Ok(v, st) == Res("ok", "", v, st)
\* return reflect.Zero(ov.Type()), errors.New(msg)
Raise(msg, ov, st, d) ==
    Res("err", msg, ZeroOf(ov), Log(st, Ev("err", msg, ov, Invalid, d, 0)))

ReturnSwallowed(r, ov, d) == Ok(ZeroOf(ov), r.st)

\* if err != nil { return reflect.Zero(ov.Type()), err }
Return(r, ov, d) ==
    Res("err", r.msg, ZeroOf(ov), Log(r.st, Ev("ret", r.msg, ov, Invalid, d, 0)))

MissingMsgUnnamed(tag) == "missing copy customiser"

MissingMsg(tag) == "missing copy customiser for: " \o tag

\* ---------------------------------------------------------------- customisers
\* Config: tag -> customiser. "anon" is the tests' shape: a constant for a
\* scalar (AnonymiseName), a fresh pointer to 1 for a pointer
\* (TestAnonymiseNilField), the argument itself otherwise (AnonymiseData on
\* an empty slice); "zero" returns the zero value of its argument's type.
Registered(c, tag) == tag \in DOMAIN c

Call(fn, x, st) ==
    CASE fn = "zero" -> [v |-> ZeroOf(x), st |-> st]
      [] x.k = "int" -> [v |-> IntV(1), st |-> st]
      [] x.k = "ptr" -> [v |-> Ptr(Top(st) + 1), st |-> Alloc(st, Cell(IntV(1)))]
      [] OTHER -> [v |-> x, st |-> st]

\* ---------------------------------------------------------------- the copy
RECURSIVE copy(_, _, _, _, _)
RECURSIVE copyFields(_, _, _, _, _, _, _)
RECURSIVE copyElems(_, _, _, _, _, _, _)
RECURSIVE copyArrayElems(_, _, _, _, _, _, _)
RECURSIVE copyEntries(_, _, _, _, _, _, _)

SetMapIndexZeroKey(entries, key, v) ==
    IF \E i \in 1..Len(entries) : entries[i].s[1] = ZeroOf(key)
    THEN [i \in 1..Len(entries) |->
            IF entries[i].s[1] = ZeroOf(key) THEN Entry(ZeroOf(key), v) ELSE entries[i]]
    ELSE Append(entries, Entry(ZeroOf(key), v))

\* SetMapIndex: replace the value of an equal key, or add the entry
SetMapIndex(entries, key, v) ==
    IF \E i \in 1..Len(entries) : entries[i].s[1] = key
    THEN [i \in 1..Len(entries) |->
            IF entries[i].s[1] = key THEN Entry(key, v) ELSE entries[i]]
    ELSE Append(entries, Entry(key, v))

\* if !v.IsZero() { oc.Field(i).Set(v) }
SetField(st, oc, i, v) == IF st.always \/ ~IsZero(v) THEN [oc EXCEPT !.s[i] = v] ELSE oc

\* !ov.Field(i).CanInterface(): the field is unexported
Skipped(ov, i) == ~ov.m[i].exp

\* the loop of copyStruct over fields i..NumField, oc the struct built so far
copyFields(c, ov, i, oc, st, d, path) ==
    IF i > Len(ov.s) THEN Ok(oc, Log(st, Ev("struct", "", ov, oc, d, 0)))
    ELSE IF Skipped(ov, i) THEN copyFields(c, ov, i + 1, oc, st, d, path)
    ELSE LET tag == ov.m[i].tag
             st1 == Log(st, Ev("field", tag, ov.s[i], Invalid, d, i))
         IN  IF tag = ""
             THEN LET r == copy(c, ov.s[i], st1, d + 1, path)
                  IN  IF r.out = "err" THEN Return(r, ov, d)
                      ELSE IF r.out # "ok" THEN r
                      ELSE copyFields(c, ov, i + 1, SetField(r.st, oc, i, r.v), r.st, d, path)
             ELSE IF ~Registered(c, tag)
                  THEN Raise(MissingMsg(tag), ov, st1, d)
                  ELSE LET r == Call(c[tag], ov.s[i], st1)
                           st2 == Log(r.st, Ev("call", tag, ov.s[i], r.v, d, i))
                       IN  copyFields(c, ov, i + 1, SetField(st2, oc, i, r.v), st2, d, path)

copyStruct(c, ov, st, d, path) == copyFields(c, ov, 1, ZeroOf(ov), st, d, path)

copyPointerShallow(c, ov, st, d, path) == Ok(ov, st)

copyPointerSelf(c, ov, st, d, path) ==
    IF ov.n = 0 THEN Ok(ov, st)
    ELSE LET st1 == Alloc(st, Cell(ZeroOf(st.heap[ov.n].s[1])))
             r == copy(c, ov, st1, d + 1, path)
         IN  IF r.out = "err" THEN Return(r, ov, d)
             ELSE IF r.out # "ok" THEN r
             ELSE Ok(Ptr(Top(st1)), r.st)

copyPointer(c, ov, st, d, path) ==
    IF ov.n = 0 THEN Ok(ov, st)
    ELSE LET elem == st.heap[ov.n].s[1]
             st1 == Alloc(st, Cell(ZeroOf(elem)))
             oc == Ptr(Top(st1))
             r == copy(c, elem, Enter(st1, ov.n, path), d + 1, path \cup {ov.n})
         IN  IF r.out = "err" THEN Return(r, ov, d)
             ELSE IF r.out # "ok" THEN r
             ELSE IF r.st.always \/ ~IsZero(r.v) THEN Ok(oc, Store(r.st, oc.n, Cell(r.v)))
             ELSE Ok(oc, r.st)

copyInterface(c, ov, st, d, path) ==
    IF ov.s = <<>> THEN Ok(ov, st)
    ELSE LET r == copy(c, ov.s[1], st, d + 1, path)
         IN  IF r.out = "err" THEN Return(r, ov, d)
             ELSE IF r.out # "ok" THEN r
             ELSE Ok(Iface(<<r.v>>), r.st)

\* the loop of copySlice over elements i..Len, oc the slice appended to
copyElems(c, ov, i, oc, st, d, path) ==
    LET elems == st.heap[ov.n].s
    IN  IF i > Len(elems) THEN Ok(oc, st)
        ELSE LET r == copy(c, elems[i], st, d + 1, path)
             IN  IF r.out = "err" THEN Return(r, ov, d)
                 ELSE IF r.out # "ok" THEN r
                 ELSE copyElems(c, ov, i + 1, oc,
                          Store(r.st, oc.n, Arr(Append(r.st.heap[oc.n].s, r.v))), d, path)

copySliceEager(c, ov, st, d, path) ==
    LET st1 == Alloc(st, Arr(<<>>))
    IN  IF ov.n = 0 THEN Ok(Slice(Top(st1)), st1)
        ELSE copyElems(c, ov, 1, Slice(Top(st1)), Enter(st1, ov.n, path), d, path \cup {ov.n})

copySlice(c, ov, st, d, path) ==
    IF ov.n = 0 THEN Ok(ov, st)
    ELSE LET st1 == Alloc(st, Arr(<<>>))
         IN  copyElems(c, ov, 1, Slice(Top(st1)), Enter(st1, ov.n, path), d, path \cup {ov.n})

\* the loop of copyArray: appending to oc[0:0:len] stores into oc itself
copyArrayElems(c, ov, i, oc, st, d, path) ==
    IF i > Len(ov.s) THEN Ok(oc, st)
    ELSE LET r == copy(c, ov.s[i], st, d + 1, path)
         IN  IF r.out = "err" THEN Return(r, ov, d)
             ELSE IF r.out # "ok" THEN r
             ELSE copyArrayElems(c, ov, i + 1, [oc EXCEPT !.s[i] = r.v], r.st, d, path)

copyArrayDetached(c, ov, st, d, path) ==
    LET r == copyArrayElems(c, ov, 1, ZeroOf(ov), st, d, path)
    IN  IF r.out = "ok" THEN Ok(ZeroOf(ov), r.st) ELSE r

copyArray(c, ov, st, d, path) == copyArrayElems(c, ov, 1, ZeroOf(ov), st, d, path)

\* the loop of copyMap over the entries i.. in iteration order
copyEntries(c, ov, i, oc, st, d, path) ==
    LET entries == st.heap[ov.n].s
    IN  IF i > Len(entries) THEN Ok(oc, Log(st, Ev("map", "", ov, oc, d, 0)))
        ELSE LET rk == copy(c, entries[i].s[1], st, d + 1, path)
             IN  IF rk.out = "err" THEN Return(rk, ov, d)
                 ELSE IF rk.out # "ok" THEN rk
                 ELSE LET rv == copy(c, entries[i].s[2], rk.st, d + 1, path)
                      IN  IF rv.out = "err" THEN Return(rv, ov, d)
                          ELSE IF rv.out # "ok" THEN rv
                          ELSE copyEntries(c, ov, i + 1, oc,
                                   Store(rv.st, oc.n,
                                       MapData(SetMapIndex(rv.st.heap[oc.n].s, rk.v, rv.v))),
                                   d, path)

copyMap(c, ov, st, d, path) ==
    IF ov.n = 0 THEN Ok(ov, st)
    ELSE LET st1 == Alloc(st, MapData(<<>>))
         IN  copyEntries(c, ov, 1, Map(Top(st1)), Enter(st1, ov.n, path), d, path \cup {ov.n})

copyTime(c, ov, st) == Ok(ov, st)

\* the strategy of each kind; no kind is left for uintptr and unsafe.Pointer
Dispatch(c, ov, st, d, path) ==
    IF ov.k = "time" THEN copyTime(c, ov, st)
    ELSE CASE ov.k = "struct" -> copyStruct(c, ov, st, d, path)
           [] ov.k = "ptr" -> copyPointer(c, ov, st, d, path)
           [] ov.k = "slice" -> copySlice(c, ov, st, d, path)
           [] ov.k = "map" -> copyMap(c, ov, st, d, path)
           [] ov.k = "iface" -> copyInterface(c, ov, st, d, path)
           [] ov.k = "array" -> copyArray(c, ov, st, d, path)
           [] ov.k \in ScalarKinds -> Ok(ov, st)
           [] OTHER -> Res("panic", "unsupported type", Invalid, st)

copy(c, ov, st0, d, path) ==
    LET st == Log([st0 EXCEPT !.maxd = IF d > @ THEN d ELSE @],
                  Ev("copy", "", ov, Invalid, d, 0))
    IN  IF d > StackLimit THEN Res("overflow", "", Invalid, st)
        ELSE IF ov.k = "invalid" THEN Raise("invalid value", ov, st, d)
        ELSE LET r == Dispatch(c, ov, st, d, path)
             IN  IF r.out = "ok"
                 THEN [r EXCEPT !.st = Log(@, Ev("done", "", ov, r.v, d, 0))]
                 ELSE r

\* reflect.ValueOf(obj): the value the interface obj holds, invalid for nil
ValueOf(o) == IF o = NilIface THEN Invalid ELSE o

\* Config.Copy: (oc.Interface(), nil) or (nil, err)
CopyWith(c, o, h, always) ==
    LET r == copy(c, ValueOf(o), St(h, always), 1, {})
    IN  IF r.out = "ok" THEN r ELSE [r EXCEPT !.v = NilIface]
CopyOf(c, o, h) == CopyWith(c, o, h, FALSE)
CopyAlways(c, o, h) == CopyWith(c, o, h, TRUE)

\* ---------------------------------------------------------------- inputs
\* The objects handed to Copy: [obj, heap], with the Config they are copied
\* under. Three families, each exhaustive within the bounds:
\*   chains  a pointer, slice or map leading through 1..MaxChain cells, each
\*           holding the next handle bare, in an interface or in a struct
\*           field, the last one a leaf or a handle back into the chain;
\*   roots   a struct of 1..MaxLen fields or an array, slice or map of
\*           0..MaxLen elements of one type, over one further cell;
\*   leaves  every leaf alone, in a one-field struct of every kind, in an
\*           array, and behind a pointer.

Metas == {Plain, Unexp, Meta(TRUE, "a"), Meta(TRUE, "b"), Meta(FALSE, "a")}
Ints == {IntV(i) : i \in 0..MaxInt}
Leaves == Ints \cup {Uintptr(1), Chan(1), Time(1), Ptr(0), Slice(0), Map(0), NilIface}
CellKinds == {"cell", "arr", "mapdata"}
Handle(ck, a) == CASE ck = "cell" -> Ptr(a) [] ck = "arr" -> Slice(a) [] OTHER -> Map(a)
Configs == {<<>>, [a |-> "anon"], [a |-> "zero"]}

\* sequences of 0..MaxLen values of one type
SameType(s) == \A i, j \in DOMAIN s : ZeroOf(s[i]) = ZeroOf(s[j])
Seqs(X) == UNION {{s \in [1..n -> X] : SameType(s)} : n \in 0..MaxLen}
Distinct(s) == \A i, j \in DOMAIN s : i # j => s[i] # s[j]

\* chains
ChainWraps == {"bare", "iface", "field", "tagged"}
Wrap(w, x) ==
    CASE w = "bare" -> x
      [] w = "iface" -> Iface(<<x>>)
      [] w = "field" -> Struct(<<x>>, <<Plain>>)
      [] OTHER -> Struct(<<x>>, <<Meta(TRUE, "a")>>)
CellOf(ck, v) ==
    CASE ck = "cell" -> Cell(v)
      [] ck = "arr" -> Arr(<<v>>)
      [] OTHER -> MapData(<<Entry(IntV(1), v)>>)
ChainLast(kv, l) ==
    CASE l = -2 -> IntV(1) [] l = -1 -> Ptr(0) [] l = 0 -> Uintptr(1) [] OTHER -> Handle(kv[l], l)
RECURSIVE ChainFrom(_, _, _, _)
ChainFrom(kv, wv, l, a) ==
    IF a > Len(kv) THEN <<>>
    ELSE <<CellOf(kv[a], Wrap(wv[a], IF a < Len(kv) THEN Handle(kv[a + 1], a + 1)
                                                     ELSE ChainLast(kv, l)))>>
           \o ChainFrom(kv, wv, l, a + 1)
ChainHeap(kv, wv, l) == ChainFrom(kv, wv, l, 1)
ChainConfigs == {<<>>, [a |-> "anon"]}

\* the one cell the roots family refers to
SimpleCells == {Cell(IntV(1)), Cell(Ptr(1)), Arr(<<IntV(1)>>), MapData(<<Entry(IntV(1), IntV(1))>>)}
HandleTo(cell, a) == Handle(cell.k, a)
Field(meta, v) == [meta |-> meta, v |-> v]
Fields(h) ==
    {Field(Plain, i) : i \in Ints}
      \cup {Field(Plain, h), Field(Plain, Uintptr(1)), Field(Unexp, Uintptr(1)),
            Field(Meta(TRUE, "a"), IntV(0)), Field(Meta(TRUE, "a"), h),
            Field(Meta(TRUE, "a"), ZeroOf(h)), Field(Meta(TRUE, "a"), Uintptr(1)),
            Field(Meta(FALSE, "a"), h), Field(Meta(TRUE, "b"), IntV(1))}
StructOf(fs) == Struct([i \in DOMAIN fs |-> fs[i].v], [i \in DOMAIN fs |-> fs[i].meta])
Structs(h) == UNION {{StructOf(fs) : fs \in [1..n -> Fields(h)]} : n \in 1..MaxLen}
Elems(h) ==
    Ints \cup {h, ZeroOf(h), NilIface, Iface(<<h>>), Iface(<<IntV(1)>>), Iface(<<Uintptr(1)>>),
               Struct(<<IntV(1)>>, <<Meta(TRUE, "b")>>), Struct(<<IntV(0)>>, <<Meta(TRUE, "a")>>)}
Keys(h) ==
    Ints \cup {NilIface, Iface(<<IntV(1)>>)}
      \cup {Iface(<<Struct(<<i>>, <<Unexp>>)>>) : i \in Ints}
      \cup {Struct(<<i>>, <<m>>) : i \in Ints, m \in {Plain, Unexp, Meta(TRUE, "a")}}
      \cup (IF h.k = "ptr" THEN {h, Ptr(0)} ELSE {})
Entries(h) ==
    {[i \in DOMAIN ks |-> Entry(ks[i], vs[i])] :
        <<ks, vs>> \in {p \in Seqs(Keys(h)) \X Seqs({IntV(1), h}) :
                            Len(p[1]) = Len(p[2]) /\ Distinct(p[1])}}
StructCells == {Cell(IntV(0)), Cell(Ptr(1))}
\* ---------------------------------------------------------------- reachability
RECURSIVE AddrsIn(_)
\* the cells a value refers to directly
AddrsIn(v) ==
    (IF v.k \in RefKinds /\ v.n # 0 THEN {v.n} ELSE {})
      \cup UNION {AddrsIn(v.s[i]) : i \in 1..Len(v.s)}

RECURSIVE Closure(_, _)
Closure(S, h) ==
    LET T == S \cup UNION {AddrsIn(h[a]) : a \in S}
    IN  IF T = S THEN S ELSE Closure(T, h)
\* every cell reachable from v in heap h
Reach(v, h) == Closure(AddrsIn(v), h)

\* ---------------------------------------------------------------- state
\* obj, cfg: the arguments of Copy; heap0: the heap as Copy found it; out,
\* msg, result: what Copy returned; snap: the heap as Copy left it; heap:
\* the heap now; wrote: the cell the caller wrote to afterwards (0: none);
\* trace, cyc, maxd: what the traversal did.
VARIABLES obj, cfg, heap0, heap, snap, phase, out, msg, result, wrote, trace, cyc, maxd
vars == <<obj, cfg, heap0, heap, snap, phase, out, msg, result, wrote, trace, cyc, maxd>>

Poison == IntV(MaxInt + 1)
\* a store through a pointer, an assignment to element 0, a map assignment
Poke(cell) ==
    CASE cell.k = "cell" -> Cell(Poison)
      [] cell.k = "arr" -> Arr([cell.s EXCEPT ![1] = Poison])
      [] OTHER -> MapData(SetMapIndex(cell.s, Poison, Poison))
Writable(a) == heap[a].k = "arr" => heap[a].s # <<>>

\* the arguments of one call of Copy and the heap they live in
Given(o, h, c) == obj = o /\ heap0 = h /\ cfg = c
InitChain ==
    \E n \in 1..MaxChain :
        \E kv \in [1..n -> CellKinds], wv \in [1..n -> ChainWraps], l \in -2..n, c \in ChainConfigs :
            Given(Handle(kv[1], 1), ChainHeap(kv, wv, l), c)
InitStruct ==
    \E cell \in StructCells, c \in Configs :
        \E o \in Structs(HandleTo(cell, 1)) : Given(o, <<cell>>, c)
InitElems ==
    \E cell \in SimpleCells, c \in Configs :
        LET h == HandleTo(cell, 1)
        IN  \/ \E s \in Seqs(Elems(h)) \ {<<>>} : Given(Array(s), <<cell>>, c)
            \/ \E s \in Seqs(Elems(h)) : Given(Slice(2), <<cell, Arr(s)>>, c)
            \/ \E es \in Entries(h) : Given(Map(2), <<cell, MapData(es)>>, c)
InitSingle ==
    \E c \in Configs :
        \/ \E x \in Leaves : Given(x, <<>>, c)
        \/ \E x \in Leaves \cup {Iface(<<l>>) : l \in Leaves \ {NilIface}} :
              \/ Given(Array(<<x>>), <<>>, c)
              \/ Given(Ptr(1), <<Cell(x)>>, c)
              \/ \E m \in Metas : Given(Struct(<<x>>, <<m>>), <<>>, c)

Init ==
    /\ InitChain \/ InitStruct \/ InitElems \/ InitSingle
    /\ heap = heap0 /\ snap = heap0
    /\ phase = "init"
    /\ out = "" /\ msg = "" /\ result = NilIface /\ wrote = 0
    /\ trace = <<>> /\ cyc = FALSE /\ maxd = 0

\* objCopy, err := c.Copy(obj)
Copy ==
    /\ phase = "init"
    /\ LET r == CopyOf(cfg, obj, heap)
       IN  /\ out' = r.out /\ msg' = r.msg /\ result' = r.v
           /\ heap' = r.st.heap /\ snap' = r.st.heap /\ trace' = r.st.trace
           /\ cyc' = r.st.cyc /\ maxd' = r.st.maxd
    /\ phase' = "copied"
    /\ UNCHANGED <<obj, cfg, heap0, wrote>>

\* the caller writes to a cell it reaches from the copy
WriteCopy ==
    /\ phase = "copied" /\ out = "ok"
    /\ \E a \in Reach(result, heap) :
          Writable(a) /\ heap' = [heap EXCEPT ![a] = Poke(@)] /\ wrote' = a
    /\ phase' = "wrotecopy"
    /\ UNCHANGED <<obj, cfg, heap0, snap, out, msg, result, trace, cyc, maxd>>

\* the caller writes to a cell it reaches from the original
WriteOriginal ==
    /\ phase = "copied" /\ out = "ok"
    /\ \E a \in Reach(obj, heap) :
          Writable(a) /\ heap' = [heap EXCEPT ![a] = Poke(@)] /\ wrote' = a
    /\ phase' = "wroteorig"
    /\ UNCHANGED <<obj, cfg, heap0, snap, out, msg, result, trace, cyc, maxd>>

Next == Copy \/ WriteCopy \/ WriteOriginal
Spec == Init /\ [][Next]_vars

\* ---------------------------------------------------------------- graphs
RECURSIVE SubVals(_)
\* v and every value stored inline in it
SubVals(v) == {v} \cup UNION {SubVals(v.s[i]) : i \in 1..Len(v.s)}
\* every value of the object graph of o in heap h
GraphVals(o, h) == SubVals(o) \cup UNION {SubVals(h[a]) : a \in Reach(o, h)}
InVals == GraphVals(obj, heap0)

Acyclic(o, h) == \A a \in Reach(o, h) : a \notin Reach(h[a], h)

\* the values one step below v: what it stores inline, or the pointee, the
\* elements, the keys and values of its cell
Kids(v, h) ==
    IF v.k \in RefKinds /\ v.n # 0
    THEN IF v.k = "map"
         THEN UNION {{h[v.n].s[i].s[1], h[v.n].s[i].s[2]} : i \in 1..Len(h[v.n].s)}
         ELSE {h[v.n].s[i] : i \in 1..Len(h[v.n].s)}
    ELSE {v.s[i] : i \in 1..Len(v.s)}
Max(S) == CHOOSE x \in S : \A y \in S : y <= x
RECURSIVE Depth(_, _)
\* the depth of the (acyclic) graph of v
Depth(v, h) == 1 + Max({0} \cup {Depth(x, h) : x \in Kids(v, h)})

RECURSIVE View(_, _)
\* the (acyclic) graph of v unfolded: its shape and content at every position
View(v, h) ==
    IF v.k \in RefKinds /\ v.n # 0
    THEN Val(v.k, 1, [i \in 1..Len(h[v.n].s) |-> View(h[v.n].s[i], h)], <<>>)
    ELSE Val(v.k, v.n, [i \in 1..Len(v.s) |-> View(v.s[i], h)], v.m)

\* the channel a chan value is a handle of, the *Location of a time.Time:
\* cells outside the heap, numbered below 0
Resources(V) ==
    {-1 : v \in {x \in V : x.k = "chan" /\ x.n # 0}}
      \cup {-2 : v \in {x \in V : x.k = "time" /\ x.n # 0}}
\* every mutable cell reachable from o
AllCells(o, h) == Reach(o, h) \cup Resources(GraphVals(o, h))

RECURSIVE OwnAddrsIn(_)
\* the cells v refers to directly, not counting what a customiser put into a
\* tagged field
OwnAddrsIn(v) ==
    (IF v.k \in RefKinds /\ v.n # 0 THEN {v.n} ELSE {})
      \cup UNION {OwnAddrsIn(v.s[i]) :
                    i \in {j \in 1..Len(v.s) : v.k = "struct" => v.m[j].tag = ""}}
RECURSIVE OwnClosure(_, _)
OwnClosure(S, h) ==
    LET T == S \cup UNION {OwnAddrsIn(h[a]) : a \in S}
    IN  IF T = S THEN S ELSE OwnClosure(T, h)
\* the cells reachable from v other than through pass-through values
\* (channels, time.Time) and values a customiser substituted
OwnReach(v, h) == OwnClosure(OwnAddrsIn(v), h)

Copied == phase # "init"
Returned == phase = "copied"
Events == DOMAIN trace

\* ---------------------------------------------------------------- C1
\* C1: after a Copy that returned without error, no mutable cell reachable
\* from the result (other than through channels, time.Time and values a
\* customiser substituted) is reachable from the input; Copy left the input
\* as it was; a write through the copy leaves every cell of the original as
\* it was, and a write through the original every cell of the copy.
C1_Independent ==
    /\ (Copied /\ out = "ok") =>
          /\ OwnReach(result, snap) \cap AllCells(obj, heap0) = {}
          /\ \A a \in DOMAIN heap0 : snap[a] = heap0[a]
    /\ (phase = "wrotecopy" /\ wrote \in OwnReach(result, snap)) =>
          \A a \in Reach(obj, heap0) : heap[a] = heap0[a]
    /\ phase = "wroteorig" =>
          \A a \in OwnReach(result, snap) : heap[a] = snap[a]

C1_Witness ==
    /\ phase = "wrotecopy" /\ wrote \in OwnReach(result, snap)
    /\ Cardinality(Reach(obj, heap0)) >= 2
    /\ \E v \in InVals : v.k = "struct"

\* ---------------------------------------------------------------- C2
PlainStructs == \A v \in InVals : v.k = "struct" => \A i \in 1..Len(v.m) : v.m[i] = Plain
Supported == \A v \in InVals : v.k # "uintptr"
DeepEqualCopy == out = "ok" /\ View(result, snap) = View(obj, heap0)

\* C2 as claimed: every finite acyclic input with only exported, untagged
\* struct fields is copied without error to a deeply equal value.
C2_Claimed == (Returned /\ Acyclic(obj, heap0) /\ PlainStructs) => DeepEqualCopy

\* C2: every finite acyclic input with only exported, untagged struct
\* fields, holding no uintptr or unsafe.Pointer value and not the nil
\* interface itself, is copied without error to a deeply equal value.
C2_DeepEqual ==
    (Returned /\ Acyclic(obj, heap0) /\ PlainStructs /\ Supported /\ obj # NilIface)
        => DeepEqualCopy

C2_Witness ==
    /\ Returned /\ Acyclic(obj, heap0) /\ PlainStructs /\ Supported
    /\ Cardinality(Reach(obj, heap0)) >= 2
    /\ \E v \in InVals : v.k = "struct"
    /\ \E v \in InVals : v.k = "iface" /\ v.s # <<>>

\* ---------------------------------------------------------------- C3
IsField(j) == trace[j].e = "field" /\ trace[j].t # ""
IsCall(j) == trace[j].e = "call"
SameField(j, q) ==
    /\ trace[q].t = trace[j].t /\ trace[q].x = trace[j].x
    /\ trace[q].d = trace[j].d /\ trace[q].i = trace[j].i

\* a reached tagged field is followed by one call of its customiser on the
\* field's value, and that by the next field or the end of the struct: no
\* c.copy of the field or of what the customiser returned
CalledOnce ==
    \A j \in Events : (IsField(j) /\ Registered(cfg, trace[j].t)) =>
        /\ j + 1 \in Events /\ IsCall(j + 1) /\ SameField(j, j + 1)
        /\ j + 2 \in Events => trace[j + 2].e \in {"field", "struct"}
\* no other call is made
CalledOnlyThere ==
    \A j \in Events : IsCall(j) =>
        j - 1 \in Events /\ IsField(j - 1) /\ SameField(j, j - 1)
\* the tagged fields of a copied struct hold what the customiser returned
FieldIsReturn ==
    \A q \in Events : trace[q].e = "struct" =>
        \A i \in 1..Len(trace[q].x.s) :
            (trace[q].x.m[i].exp /\ trace[q].x.m[i].tag # "") =>
                \E j \in 1..(q - 1) :
                    /\ IsCall(j) /\ trace[j].d = trace[q].d /\ trace[j].i = i
                    /\ \A n \in (j + 1)..(q - 1) :
                          ~(IsCall(n) /\ trace[n].d = trace[q].d /\ trace[n].i = i)
                    /\ trace[j].t = trace[q].x.m[i].tag
                    /\ trace[j].x = trace[q].x.s[i]
                    /\ trace[j].y = trace[q].y.s[i]

\* C3 as claimed: for any tagged struct field (of the input) whose tag is in
\* the Config, the customiser is called with the field's value, exactly
\* once; the copy's field is what it returned; c.copy is applied neither to
\* the field nor to what the customiser returned.
C3_Claimed ==
    Returned =>
        /\ \A v \in InVals : v.k = "struct" =>
              \A i \in 1..Len(v.s) : (v.m[i].tag # "" /\ Registered(cfg, v.m[i].tag)) =>
                  \E j \in Events : IsCall(j) /\ trace[j].t = v.m[i].tag
                                      /\ trace[j].x = v.s[i] /\ trace[j].i = i
        /\ CalledOnce /\ CalledOnlyThere /\ FieldIsReturn

\* C3: for any exported tagged struct field that the traversal reaches and
\* whose tag is in the Config, the customiser is called with the field's
\* value (nil and zero included), exactly once; the copy's field is what it
\* returned; c.copy is applied neither to the field nor to what the
\* customiser returned.
C3_Customised == Returned => (CalledOnce /\ CalledOnlyThere /\ FieldIsReturn)

C3_Witness ==
    /\ Returned /\ out = "ok"
    /\ \E j \in Events : IsCall(j) /\ IsZero(trace[j].x) /\ ~IsZero(trace[j].y)
                            /\ trace[j].x.k = "ptr"
    /\ \E j \in Events : IsCall(j) /\ trace[j].i >= 2

\* ---------------------------------------------------------------- C4
MissingError(tag) ==
    /\ out = "err" /\ msg = "missing copy customiser for: " \o tag
    /\ result = NilIface

\* C4 as claimed: for any tagged struct field of the input whose tag is not
\* in the Config, Copy returns "missing copy customiser for: <tag>" with
\* that field's tag, and no value.
C4_Claimed ==
    Returned =>
        \A v \in InVals : v.k = "struct" =>
            \A i \in 1..Len(v.s) :
                (v.m[i].tag # "" /\ ~Registered(cfg, v.m[i].tag)) => MissingError(v.m[i].tag)

\* C4: for any exported tagged struct field that the traversal reaches and
\* whose tag is not in the Config, Copy returns "missing copy customiser
\* for: <tag>" with that field's tag, and no value: the traversal ends
\* there, no struct around the field is completed.
C4_Missing ==
    Returned =>
        \A j \in Events : (IsField(j) /\ ~Registered(cfg, trace[j].t)) =>
            /\ MissingError(trace[j].t)
            /\ j + 1 \in Events /\ trace[j + 1].e = "err"
            /\ \A q \in Events : q > j + 1 => trace[q].e = "ret"

C4_Witness ==
    /\ Returned /\ out = "err"
    /\ \E j \in Events : IsField(j) /\ ~Registered(cfg, trace[j].t)
                            /\ \E q \in 1..(j - 1) : IsCall(q) /\ trace[q].d = trace[j].d

\* ---------------------------------------------------------------- C5
IsNilValue(v) == (v.k \in RefKinds /\ v.n = 0) \/ v = NilIface
\* c.copy of a nil pointer, slice, map or interface returns it, and no error
NilStaysNil ==
    \A j \in Events : (trace[j].e = "copy" /\ IsNilValue(trace[j].x)) =>
        /\ j + 1 \in Events
        /\ trace[j + 1] = Ev("done", "", trace[j].x, trace[j].x, trace[j].d, 0)
\* and the struct, array, pointer or interface copied around it holds it
NilStaysPut ==
    \A q \in Events : trace[q].e = "done" =>
        LET x == trace[q].x
            y == trace[q].y
        IN  /\ x.k \in {"struct", "array", "iface"} =>
                  \A i \in 1..Len(x.s) :
                      (IsNilValue(x.s[i]) /\ (x.k = "struct" => x.m[i] = Plain))
                          => y.s[i] = x.s[i]
            /\ (x.k \in {"ptr", "slice"} /\ x.n # 0) =>
                  /\ y.n # 0 /\ Len(snap[y.n].s) = Len(heap0[x.n].s)
                  /\ \A i \in 1..Len(heap0[x.n].s) :
                        IsNilValue(heap0[x.n].s[i]) => snap[y.n].s[i] = heap0[x.n].s[i]

\* C5 as claimed: a nil pointer, slice, map or interface, passed to Copy or
\* met below, is copied without error to the same nil value.
C5_Claimed ==
    Returned =>
        /\ IsNilValue(obj) => (out = "ok" /\ result = obj)
        /\ NilStaysNil /\ NilStaysPut

\* C5: a nil pointer, slice or map passed to Copy, and a nil pointer, slice,
\* map or interface that c.copy reaches below (an untagged exported field,
\* an element, a key or value, a pointee), is copied without error to the
\* same nil value; a nil interface passed to Copy itself is no value, and
\* Copy returns the error "invalid value".
C5_Nil ==
    Returned =>
        /\ (IsNilValue(obj) /\ obj # NilIface) => (out = "ok" /\ result = obj)
        /\ obj = NilIface => (out = "err" /\ msg = "invalid value" /\ result = NilIface)
        /\ NilStaysNil /\ NilStaysPut

C5_Witness ==
    /\ Returned /\ out = "ok"
    /\ \E j \in Events : trace[j].e = "copy" /\ IsNilValue(trace[j].x) /\ trace[j].d >= 3

\* ---------------------------------------------------------------- C6
\* C6 as claimed: a uintptr or unsafe.Pointer value anywhere in the input
\* makes Copy panic.
C6_Claimed == (Returned /\ \E v \in InVals : v.k = "uintptr") => out = "panic"

\* C6: when the traversal reaches a uintptr or unsafe.Pointer value (as the
\* input, an untagged exported field, an element, a key or value, a pointee
\* or the content of an interface), Copy panics there: nothing follows, no
\* result and no error are returned.
C6_Unsupported ==
    Returned =>
        /\ \A j \in Events : (trace[j].e = "copy" /\ trace[j].x.k = "uintptr") =>
              /\ out = "panic" /\ msg = "unsupported type" /\ result = NilIface
              /\ j = Len(trace)
        /\ out = "panic" => trace[Len(trace)].x.k = "uintptr"

C6_Witness ==
    /\ Returned /\ out = "panic"
    /\ trace[Len(trace)].d >= 2
    /\ \E j \in Events : IsCall(j)

\* ---------------------------------------------------------------- C7
\* C7: once an error is created, at whatever depth d, nothing else is
\* copied and no customiser is called: the d - 1 strategies around it return
\* that error, innermost first, and Copy returns nil and the error; Copy
\* returns an error only so, and never a value with it.
C7_Abort ==
    Returned =>
        /\ \A j \in Events : trace[j].e = "err" =>
              /\ out = "err" /\ msg = trace[j].t /\ result = NilIface
              /\ Len(trace) = j + trace[j].d - 1
              /\ \A q \in (j + 1)..Len(trace) :
                    /\ trace[q].e = "ret" /\ trace[q].t = trace[j].t
                    /\ trace[q].d = trace[j].d - (q - j)
        /\ out = "err" => \E j \in Events : trace[j].e = "err"
        /\ out = "ok" => msg = ""
        /\ out # "ok" => result = NilIface

C7_Witness ==
    /\ Returned /\ out = "err"
    /\ \E j \in Events : /\ trace[j].e = "err" /\ trace[j].d >= 3
                         /\ \E q \in 1..(j - 1) : trace[q].e = "done"

\* ---------------------------------------------------------------- C8
\* C8: assigning the copied value only when it is not zero (struct fields,
\* pointees) gives the result, error or abort, and the heap, that always
\* assigning it gives.
C8_ZeroSkip ==
    Returned =>
        LET r == CopyAlways(cfg, obj, heap0)
        IN  r.out = out /\ r.msg = msg /\ r.v = result /\ r.st.heap = snap

C8_Witness ==
    /\ Returned /\ out = "ok"
    /\ \E j \in Events : IsCall(j) /\ IsZero(trace[j].y) /\ ~IsZero(trace[j].x)
    /\ \E j \in Events : /\ trace[j].e = "done" /\ trace[j].d >= 2 /\ IsZero(trace[j].y)
                         /\ j + 1 \in Events /\ trace[j + 1].e = "done"
                         /\ trace[j + 1].x.k = "ptr"

MapCopies == {j \in Events : trace[j].e = "map"}
SrcEntries(j) == heap0[trace[j].x.n].s
DstEntries(j) == snap[trace[j].y.n].s
\* each entry of the input has its own entry in the copy, the key the copy
\* of its key
EntryForEntry(j) ==
    /\ Len(DstEntries(j)) = Len(SrcEntries(j))
    /\ \A i \in 1..Len(SrcEntries(j)) :
          /\ i \in DOMAIN DstEntries(j)
          /\ \E q \in 1..j : trace[q] = Ev("done", "", SrcEntries(j)[i].s[1],
                                           DstEntries(j)[i].s[1], trace[j].d + 1, 0)
          /\ \E q \in 1..j : trace[q] = Ev("done", "", SrcEntries(j)[i].s[2],
                                           DstEntries(j)[i].s[2], trace[j].d + 1, 0)
\* no struct stored in the key has an unexported or a tagged field
PlainKey(key) == \A v \in SubVals(key) : v.k = "struct" => \A i \in 1..Len(v.m) : v.m[i] = Plain

\* C10 as claimed: the copy of a map has one entry (copy(k), copy(v)) for
\* each entry (k, v) of the map, whatever the key type and the Config.
C10_Claimed == (Returned /\ out = "ok") => \A j \in MapCopies : EntryForEntry(j)

\* C10: the copy of a map has one entry (copy(k), copy(v)) for each entry
\* (k, v) of the map, provided no key holds a struct (directly, in an array
\* or in an interface) with an unexported or a tagged field.
C10_Entries ==
    (Returned /\ out = "ok") =>
        \A j \in MapCopies :
            (\A i \in 1..Len(SrcEntries(j)) : PlainKey(SrcEntries(j)[i].s[1]))
                => EntryForEntry(j)

C10_Witness ==
    /\ Returned /\ out = "ok"
    /\ \E j \in MapCopies :
          /\ Len(SrcEntries(j)) >= 2
          /\ \A i \in 1..Len(SrcEntries(j)) : PlainKey(SrcEntries(j)[i].s[1])
          /\ SrcEntries(j)[1].s[1].k \in {"struct", "ptr", "iface"}

====
